---- MODULE Spec2Model ----
(***************************************************************************)
(* Model of tools/analyzer.py: the URL normalizer, the same-site check,    *)
(* the link extractor and the crawl loop.                                  *)
(*                                                                         *)
(* A Python str is a sequence of one-character strings.  The alphabet of   *)
(* the inputs has letters, ".", ":", "/", "?", "#" and the space; it has   *)
(* no ";" (so urlparse never finds params), no "[" or "]" and no tab or    *)
(* newline.                                                                *)
(***************************************************************************)
EXTENDS Integers, Sequences, FiniteSets, TLC

(***************************************************************************)
(* Bounds of the model.                                                    *)
(***************************************************************************)
\* longest path, in characters, of the URLs given to normalize_url alone
MaxPathLen == 3
\* largest page budget (max_pages) a crawl is started with
MaxBudget == 3
\* most anchors on one fetched page
MaxAnchors == 2
\* longest page text, in characters, given to analyze_content alone
MaxTextLen == 4
\* most search terms given to analyze_content alone
MaxTerms == 2
\* largest page budget (--max-pages) main is started with
MainBudget == 1
\* largest page budget of the crawls that are run twice
PairBudget == 2

(***************************************************************************)
(* str helpers.                                                            *)
(***************************************************************************)
Uppers ==
    <<"A", "B", "C", "D", "E", "F", "G", "H", "I", "J", "K", "L", "M", "N",
     "O", "P", "Q", "R", "S", "T", "U", "V", "W", "X", "Y", "Z">>

Lowers ==
    <<"a", "b", "c", "d", "e", "f", "g", "h", "i", "j", "k", "l", "m", "n",
     "o", "p", "q", "r", "s", "t", "u", "v", "w", "x", "y", "z">>

UpperToLower ==
    [c \in {Uppers[i] : i \in 1..26} |->
        Lowers[CHOOSE i \in 1..26 : Uppers[i] = c]]

Letters == {Uppers[i] : i \in 1..26} \cup {Lowers[i] : i \in 1..26}

\* urllib.parse.scheme_chars, restricted to the alphabet
scheme_chars == Letters \cup {"+", "-", "."}

LowerChar(c) == IF c \in DOMAIN UpperToLower THEN UpperToLower[c] ELSE c

\* str.lower()
Lower(s) == [i \in 1..Len(s) |-> LowerChar(s[i])]

\* s[i:] with a 0-based Python index i >= 0
From(s, i) == SubSeq(s, i + 1, Len(s))

\* str.startswith
StartsWith(s, p) == Len(p) <= Len(s) /\ SubSeq(s, 1, Len(p)) = p

\* str.endswith
EndsWith(s, p) ==
    Len(p) <= Len(s) /\ SubSeq(s, Len(s) - Len(p) + 1, Len(s)) = p

\* c in s
Contains(s, c) == \E i \in 1..Len(s) : s[i] = c

\* s.find(c) as a 1-based position, 0 when c is not in s
Find(s, c) ==
    IF Contains(s, c)
    THEN CHOOSE i \in 1..Len(s) : s[i] = c /\ \A j \in 1..(i - 1) : s[j] # c
    ELSE 0

\* str.lstrip() for the one whitespace character of the alphabet
RECURSIVE LStrip(_)
LStrip(s) == IF s # <<>> /\ Head(s) = " " THEN LStrip(Tail(s)) ELSE s

RECURSIVE RStrip(_)
RStrip(s) ==
    IF s # <<>> /\ s[Len(s)] = " " THEN RStrip(SubSeq(s, 1, Len(s) - 1)) ELSE s

\* str.strip()
Strip(s) == RStrip(LStrip(s))

\* s.split(c): the list of the pieces between the occurrences of c
RECURSIVE Split(_, _)
Split(s, c) ==
    IF ~Contains(s, c) THEN <<s>>
    ELSE <<SubSeq(s, 1, Find(s, c) - 1)>> \o Split(From(s, Find(s, c)), c)

\* c.join(parts)
RECURSIVE Join(_, _)
Join(parts, c) ==
    IF parts = <<>> THEN <<>>
    ELSE IF Len(parts) = 1 THEN parts[1]
    ELSE parts[1] \o <<c>> \o Join(Tail(parts), c)

(***************************************************************************)
(* urllib.parse, as analyzer.py uses it.                                   *)
(***************************************************************************)
S_http == <<"h", "t", "t", "p">>
S_https == <<"h", "t", "t", "p", "s">>
S_ftp == <<"f", "t", "p">>
S_mailto == <<"m", "a", "i", "l", "t", "o">>
S_tel == <<"t", "e", "l">>
S_javascript == <<"j", "a", "v", "a", "s", "c", "r", "i", "p", "t">>
S_data == <<"d", "a", "t", "a">>
S_www == <<"w", "w", "w", ".">>

\* the members of uses_netloc and of uses_relative the alphabet can spell
uses_netloc == {<<>>, S_ftp, S_http, S_https}
uses_relative == {<<>>, S_ftp, S_http, S_https}

(***************************************************************************)
(* Each step of a function is an operator that takes the values computed   *)
(* so far as parameters, in the order of the statements of the function.   *)
(***************************************************************************)
\* url[:i] for the first c in url, the whole of url when it has no c
BeforeChar(url, c) ==
    IF Contains(url, c) THEN SubSeq(url, 1, Find(url, c) - 1) ELSE url

\* url[i+1:] for the first c in url, "" when it has no c
AfterChar(url, c) == IF Contains(url, c) THEN From(url, Find(url, c)) ELSE <<>>

\* urlsplit: url begins with a scheme, letters and "+-." up to the first ":"
HasScheme(url, i) ==
    /\ i > 1
    /\ url[1] \in Letters
    /\ \A k \in 1..(i - 1) : url[k] \in scheme_chars

\* _splitnetloc(url, 2): where the netloc that starts at position 3 ends, at
\* the first of "/", "?", "#" after the leading "//" or at the end of url
NetlocStops(url) == {i \in 3..Len(url) : url[i] \in {"/", "?", "#"}}

NetlocEndOf(url, stops) ==
    IF stops = {} THEN Len(url)
    ELSE (CHOOSE i \in stops : \A j \in stops : i <= j) - 1

NetlocEnd(url) == NetlocEndOf(url, NetlocStops(url))

\* urlsplit, last step: the fragment is cut off and then the query
SplitRest(scheme, netloc, url) ==
    [scheme |-> scheme, netloc |-> netloc,
     path |-> BeforeChar(BeforeChar(url, "#"), "?"),
     query |-> AfterChar(BeforeChar(url, "#"), "?"),
     fragment |-> AfterChar(url, "#")]

\* urlsplit, the netloc: url[:2] == "//"
SplitNetloc(scheme, url, hasNetloc) ==
    SplitRest(scheme,
              IF hasNetloc THEN SubSeq(url, 3, NetlocEnd(url)) ELSE <<>>,
              IF hasNetloc THEN From(url, NetlocEnd(url)) ELSE url)

\* urlsplit, the scheme
SplitScheme(url, scheme0, hasScheme) ==
    SplitNetloc(IF hasScheme THEN Lower(BeforeChar(url, ":")) ELSE scheme0,
                IF hasScheme THEN AfterChar(url, ":") ELSE url,
                StartsWith(IF hasScheme THEN AfterChar(url, ":") ELSE url,
                           <<"/", "/">>))

SplitStripped(url, scheme0) ==
    SplitScheme(url, scheme0, HasScheme(url, Find(url, ":")))

\* urlsplit(url, scheme): scheme is the default when url names none
urlsplit(url, scheme0) == SplitStripped(LStrip(url), scheme0)

\* urlparse(url): urlsplit plus the params, which are always empty here
urlparse(url) == urlsplit(url, <<>>)

\* urlunsplit: the "//", the netloc and the path
UnsplitNetloc(p) ==
    IF \/ p.netloc # <<>>
       \/ /\ p.scheme # <<>>
          /\ p.scheme \in uses_netloc
          /\ ~StartsWith(p.path, <<"/", "/">>)
    THEN <<"/", "/">> \o p.netloc \o
         (IF p.path # <<>> /\ Head(p.path) # "/" THEN <<"/">> ELSE <<>>) \o
         p.path
    ELSE p.path

\* urlunsplit: the scheme, the query and the fragment around it
UnsplitAround(p, url) ==
    (IF p.scheme # <<>> THEN p.scheme \o <<":">> ELSE <<>>) \o url \o
    (IF p.query # <<>> THEN <<"?">> \o p.query ELSE <<>>) \o
    (IF p.fragment # <<>> THEN <<"#">> \o p.fragment ELSE <<>>)

\* urlunsplit / urlunparse / ParseResult.geturl()
urlunsplit(p) == UnsplitAround(p, UnsplitNetloc(p))

\* urldefrag(url)[0]
urldefrag(url) ==
    IF Contains(url, "#")
    THEN urlunsplit([urlparse(url) EXCEPT !.fragment = <<>>])
    ELSE url

(***************************************************************************)
(* normalize_url                                                           *)
(***************************************************************************)
\* lines 39-42: scheme and netloc lower-cased, and the URL rebuilt
Rebuild(parsed) ==
    urlunsplit([parsed EXCEPT !.scheme = Lower(parsed.scheme),
                              !.netloc = Lower(parsed.netloc)])

\* lines 46-47: one trailing slash off a path that is not the root
StripTrailingSlash(rebuilt, p2) ==
    IF p2.path \notin {<<>>, <<"/">>} /\ EndsWith(rebuilt, <<"/">>)
    THEN SubSeq(rebuilt, 1, Len(rebuilt) - 1)
    ELSE rebuilt

\* lines 45-49
Finish(rebuilt) == StripTrailingSlash(rebuilt, urlparse(rebuilt))

normalize_url(url) == Finish(Rebuild(urlparse(urldefrag(url))))

(***************************************************************************)
(* urljoin(base, url)                                                      *)
(***************************************************************************)
RECURSIVE Resolve(_, _)
\* the loop of urljoin over the segments: ".." pops, "." is dropped
Resolve(segments, resolved_path) ==
    IF segments = <<>> THEN resolved_path
    ELSE IF Head(segments) = <<".", ".">>
         THEN Resolve(Tail(segments),
                      IF resolved_path = <<>> THEN <<>>
                      ELSE SubSeq(resolved_path, 1, Len(resolved_path) - 1))
    ELSE IF Head(segments) = <<".">>
         THEN Resolve(Tail(segments), resolved_path)
    ELSE Resolve(Tail(segments), Append(resolved_path, Head(segments)))

\* segments[1:-1] = filter(None, segments[1:-1])
FilterInner(segments) ==
    IF Len(segments) < 2 THEN segments
    ELSE <<segments[1]>> \o
         SelectSeq(SubSeq(segments, 2, Len(segments) - 1),
                   LAMBDA seg : seg # <<>>) \o
         <<segments[Len(segments)]>>

\* base_parts: the segments of the base path without its last, non-empty one
BaseParts(bp) ==
    IF bp[Len(bp)] # <<>> THEN SubSeq(bp, 1, Len(bp) - 1) ELSE bp

\* the segments to resolve
Segments(bpath, path) ==
    IF path # <<>> /\ Head(path) = "/"
    THEN Split(path, "/")
    ELSE FilterInner(BaseParts(Split(bpath, "/")) \o Split(path, "/"))

\* resolved_path, with the "" appended after a last "." or ".."
Resolved(segments) ==
    Resolve(segments, <<>>) \o
    (IF segments[Len(segments)] \in {<<".">>, <<".", ".">>}
     THEN <<<<>>>> ELSE <<>>)

\* "/".join(resolved_path) or "/"
PathOrRoot(joined) == IF joined = <<>> THEN <<"/">> ELSE joined

MergedPath(bpath, path) ==
    PathOrRoot(Join(Resolved(Segments(bpath, path)), "/"))

\* the components urljoin hands to urlunparse when url is relative to base
JoinedParts(b, u) ==
    IF u.scheme \in uses_netloc /\ u.netloc # <<>> THEN u
    ELSE IF u.path = <<>>
         THEN [u EXCEPT !.netloc = IF u.scheme \in uses_netloc
                                   THEN b.netloc ELSE u.netloc,
                        !.path = b.path,
                        !.query = IF u.query = <<>> THEN b.query
                                  ELSE u.query]
    ELSE [u EXCEPT !.netloc = IF u.scheme \in uses_netloc
                              THEN b.netloc ELSE u.netloc,
                   !.path = MergedPath(b.path, u.path)]

JoinParsed(b, u, url) ==
    IF u.scheme # b.scheme \/ u.scheme \notin uses_relative THEN url
    ELSE urlunsplit(JoinedParts(b, u))

JoinWithBase(b, url) == JoinParsed(b, urlsplit(url, b.scheme), url)

urljoin(base, url) ==
    IF base = <<>> THEN url
    ELSE IF url = <<>> THEN base
    ELSE JoinWithBase(urlparse(base), url)

(***************************************************************************)
(* is_probably_web_link, same_site                                         *)
(***************************************************************************)
NonWebPrefixes ==
    {<<"#">>, S_mailto \o <<":">>, S_tel \o <<":">>,
     S_javascript \o <<":">>, S_data \o <<":">>}

\* lines 84-88 for href_l
IsWebLinkLower(href_l) ==
    /\ href_l # <<>>
    /\ \A p \in NonWebPrefixes : ~StartsWith(href_l, p)

is_probably_web_link(href) == IsWebLinkLower(Strip(Lower(href)))

\* a[4:] if a.startswith("www.") else a
StripWww(a) == IF StartsWith(a, S_www) THEN From(a, 4) ELSE a

\* mutant of SameStripped: only a subdomain of the second host is accepted
SameStripped_oneway(a, b) == a = b \/ EndsWith(a, <<".">> \o b)

\* mutant of SameStripped: any common ending is accepted
SameStripped_nodot(a, b) == EndsWith(a, b) \/ EndsWith(b, a)

\* line 95
SameStripped(a, b) ==
    a = b \/ EndsWith(a, <<".">> \o b) \/ EndsWith(b, <<".">> \o a)

same_site(netloc_a, netloc_b) ==
    SameStripped(StripWww(Lower(netloc_a)), StripWww(Lower(netloc_b)))

(***************************************************************************)
(* extract_links: the anchors of a page are the set of its href values.    *)
(***************************************************************************)
\* mutant of SiteOf: the link is judged against the host of the page
SiteOf_page(base_url, allowed_netloc) == urlparse(base_url).netloc

\* the host a candidate link is judged against
SiteOf(base_url, allowed_netloc) == allowed_netloc

\* lines 115-124: the link is kept when it is http(s) and on the site
KeepLink(full_url, parsed, base_url, allowed_netloc) ==
    IF parsed.scheme \notin {S_http, S_https} THEN {}
    ELSE IF same_site(parsed.netloc, SiteOf(base_url, allowed_netloc))
         THEN {full_url}
    ELSE {}

\* lines 114-124
Candidate(full_url, base_url, allowed_netloc) ==
    KeepLink(full_url, urlparse(full_url), base_url, allowed_netloc)

\* lines 109-124 for a stripped href
LinkOfStripped(href, base_url, allowed_netloc) ==
    IF ~is_probably_web_link(href) THEN {}
    ELSE Candidate(normalize_url(urljoin(base_url, href)), base_url,
                   allowed_netloc)

\* one anchor: the URL it adds to links, or no URL
LinkOf(href, base_url, allowed_netloc) ==
    LinkOfStripped(Strip(href), base_url, allowed_netloc)

extract_links(anchors, base_url, allowed_netloc) ==
    UNION {LinkOf(href, base_url, allowed_netloc) : href \in anchors}

(***************************************************************************)
(* fetch_page.  A response is what requests.get gives for one URL:         *)
(*   raises  - get, raise_for_status or iter_content raises a              *)
(*             RequestException (connection error, timeout, non-2xx)       *)
(*   ctype   - the Content-Type header ("" when missing)                   *)
(*   chunks  - the sizes in bytes of the chunks iter_content yields        *)
(*   anchors - the href values of the <a> tags of the body                 *)
(* The value returned is None or the decoded text, of which the model      *)
(* keeps the length and the anchors.                                       *)
(***************************************************************************)
MAX_BYTES == 2000000

None == [isNone |-> TRUE, len |-> 0, anchors |-> {}]

T_html == <<"t", "e", "x", "t", "/", "h", "t", "m", "l">>
T_HTML == <<"T", "e", "x", "t", "/", "H", "T", "M", "L">>
T_xhtml ==
    <<"a", "p", "p", "l", "i", "c", "a", "t", "i", "o", "n", "/", "x", "h",
     "t", "m", "l", "+", "x", "m", "l">>
T_json ==
    <<"a", "p", "p", "l", "i", "c", "a", "t", "i", "o", "n", "/", "j", "s",
     "o", "n">>

\* sub in s
RECURSIVE ContainsSub(_, _)
ContainsSub(s, sub) ==
    IF Len(s) < Len(sub) THEN FALSE
    ELSE StartsWith(s, sub) \/ ContainsSub(Tail(s), sub)

\* line 56-57: the header lower-cased holds one of the two HTML types
IsHtmlLower(ctype) ==
    ContainsSub(ctype, T_html) \/ ContainsSub(ctype, T_xhtml)

IsHtmlType(header) == IsHtmlLower(Lower(header))

\* the loop over iter_content: the bytes kept, or -1 once they exceed the cap
RECURSIVE ReadChunks(_, _)
ReadChunks(chunks, content) ==
    IF chunks = <<>> \/ Head(chunks) = 0 THEN content
    ELSE IF content + Head(chunks) > MAX_BYTES THEN -1
    ELSE ReadChunks(Tail(chunks), content + Head(chunks))

\* lines 62-76: the body read, decoded and returned, or None over the cap
Body(r, content) ==
    IF content < 0 THEN None
    ELSE [isNone |-> FALSE, len |-> content,
          anchors |-> IF content = 0 THEN {} ELSE r.anchors]

\* mutant of fetch_page: the content type is not looked at
fetch_page_anytype(r) ==
    IF r.raises THEN None ELSE Body(r, ReadChunks(r.chunks, 0))

fetch_page(r) ==
    IF r.raises THEN None
    ELSE IF ~IsHtmlType(r.ctype) THEN None
    ELSE Body(r, ReadChunks(r.chunks, 0))

\* not html
Falsy(h) == h.isNone \/ h.len = 0

\* line 54: Response.raise_for_status of requests raises HTTPError for a
\* 4xx and for a 5xx status, and for no other
RaisesForStatus(status) == 400 <= status /\ status < 600

\* lines 53-54: what requests.get and raise_for_status make of an exchange:
\* failed is a connection that broke or timed out
Answer(failed, status, ctype, chunks) ==
    [raises |-> failed \/ RaisesForStatus(status),
     ctype |-> ctype, chunks |-> chunks, anchors |-> {}]

\* lines 63-69: the chunks the loop takes from iter_content
RECURSIVE ChunksTaken(_, _)
ChunksTaken(chunks, content) ==
    IF chunks = <<>> THEN 0
    ELSE IF Head(chunks) = 0 \/ content + Head(chunks) > MAX_BYTES THEN 1
    ELSE 1 + ChunksTaken(Tail(chunks), content + Head(chunks))

\* the chunks fetch_page reads before it returns
ChunksRead(r) ==
    IF r.raises \/ ~IsHtmlType(r.ctype) THEN 0
    ELSE ChunksTaken(r.chunks, 0)

(***************************************************************************)
(* analyze_content.  The page is the text that get_text yields for it; the *)
(* pattern is the escaped term between two \b, which matches the term      *)
(* itself where a word boundary stands on either side of it.               *)
(***************************************************************************)
\* \w of re, for the alphabet
IsWord(c) == c \in Letters

\* \b between text[i] and text[i + 1]: a word character on one side only
WordBoundary(text, i) ==
    (i >= 1 /\ IsWord(text[i])) # (i < Len(text) /\ IsWord(text[i + 1]))

\* the pattern matches at offset i
MatchesAt(term, text, i) ==
    /\ i + Len(term) <= Len(text)
    /\ SubSeq(text, i + 1, i + Len(term)) = term
    /\ WordBoundary(text, i)
    /\ WordBoundary(text, i + Len(term))

\* line 149: len(re.findall(pattern, text)), the search being at offset i
RECURSIVE FindAll(_, _, _)
FindAll(term, text, i) ==
    IF i > Len(text) THEN 0
    ELSE IF MatchesAt(term, text, i)
         THEN 1 + FindAll(term, text,
                          IF term = <<>> THEN i + 1 ELSE i + Len(term))
         ELSE FindAll(term, text, i + 1)

\* line 144: the places where the words of text.split() start
WordStarts(text) ==
    {i \in 1..Len(text) : text[i] # " " /\ (i = 1 \/ text[i - 1] = " ")}

\* the keys of the dict matches
TermKeys(terms) == {terms[i] : i \in 1..Len(terms)}

\* lines 144-151 for the text in lower case
Scored(text, terms) ==
    [word_count |-> Cardinality(WordStarts(text)),
     matches |-> [term \in TermKeys(terms) |-> FindAll(Lower(term), text, 0)]]

analyze_content(page, terms) == Scored(Lower(page), terms)

(***************************************************************************)
(* main: the value of --terms becomes the list of search terms.            *)
(***************************************************************************)
\* [t.strip() for t in pieces if t.strip()]
RECURSIVE Trimmed(_)
Trimmed(pieces) ==
    IF pieces = <<>> THEN <<>>
    ELSE (IF Strip(Head(pieces)) # <<>> THEN <<Strip(Head(pieces))>>
          ELSE <<>>) \o Trimmed(Tail(pieces))

\* the pieces that are not empty, as they are
RECURSIVE NonEmpty(_)
NonEmpty(pieces) ==
    IF pieces = <<>> THEN <<>>
    ELSE (IF Head(pieces) # <<>> THEN <<Head(pieces)>> ELSE <<>>)
         \o NonEmpty(Tail(pieces))

\* mutant of ParseTerms: the pieces are not stripped
ParseTerms_nostrip(arg) == NonEmpty(Split(arg, ","))

\* line 206
ParseTerms(arg) == Trimmed(Split(arg, ","))

(***************************************************************************)
(* The inputs: the seeds crawl is called with, and the href values the     *)
(* pages of the site may hold.                                             *)
(***************************************************************************)
\* http://b.c : a root with an empty path
Seed_root == <<"h", "t", "t", "p", ":", "/", "/", "b", ".", "c">>
\* HTTP://X.b.c/x//#f : a subdomain, upper case, two trailing slashes
Seed_sub == 
    <<"H", "T", "T", "P", ":", "/", "/", "X", ".", "b", ".", "c", "/", "x", "/", "/", "#", "f">>
\* ftp://b.c/ : not an http(s) scheme
Seed_ftp == <<"f", "t", "p", ":", "/", "/", "b", ".", "c", "/">>
\* http:/x : no host
Seed_nohost == <<"h", "t", "t", "p", ":", "/", "x">>
\* b.c : no scheme
Seed_noscheme == <<"b", ".", "c">>

Seeds == {Seed_root, Seed_sub, Seed_ftp, Seed_nohost, Seed_noscheme}

\* " /y " : an absolute path between spaces
H_y == <<" ", "/", "y", " ">>
\* y/ : a relative path with a trailing slash
H_yslash == <<"y", "/">>
\* /x// : a path that ends in two slashes
H_xslashes == <<"/", "x", "/", "/">>
\* http://ab.c/y : a host that ends like b.c without a dot boundary
H_offsite == 
    <<"h", "t", "t", "p", ":", "/", "/", "a", "b", ".", "c", "/", "y">>
\* http://o.b.c/ : another subdomain of b.c
H_sibling == 
    <<"h", "t", "t", "p", ":", "/", "/", "o", ".", "b", ".", "c", "/">>
\* ftp://b.c/y : not an http(s) scheme
H_ftp == <<"f", "t", "p", ":", "/", "/", "b", ".", "c", "/", "y">>
\* //b.c : a network-path reference to the root, with an empty path
H_root == <<"/", "/", "b", ".", "c">>

Hrefs == {H_y, H_yslash, H_xslashes, H_offsite, H_sibling, H_ftp, H_root}

\* the anchors of one page
Bodies == {a \in SUBSET Hrefs : Cardinality(a) <= MaxAnchors}

\* line 63: chunk_size = 64 * 1024
CHUNK == 65536

\* the chunks of a body over the cap: 31 full chunks are 2,031,616 bytes
TooManyChunks == [i \in 1..31 |-> CHUNK]

NoBody == [raises |-> FALSE, ctype |-> <<>>, chunks |-> <<>>, anchors |-> {}]

Responses ==
    {[NoBody EXCEPT !.raises = TRUE]}
    \cup {[NoBody EXCEPT !.ctype = c, !.chunks = <<CHUNK, 1>>] :
            c \in {T_json, <<>>}}
    \cup {[NoBody EXCEPT !.ctype = T_html, !.chunks = ch] :
            ch \in {<<>>, TooManyChunks}}
    \cup {[NoBody EXCEPT !.ctype = T_xhtml, !.chunks = <<CHUNK>>]}
    \cup {[NoBody EXCEPT !.ctype = T_HTML, !.chunks = <<CHUNK, 1>>,
                         !.anchors = a] : a \in Bodies}

\* the orders in which a for loop may go through a Python set
Orders(S) ==
    {o \in [1..Cardinality(S) -> S] :
        \A i, j \in 1..Cardinality(S) : i # j => o[i] # o[j]}

(***************************************************************************)
(* State.  crawl's locals, the place it is at (pc), and the history of     *)
(* what it did: every string appended to the queue (enqLog), popped from   *)
(* it (deqLog) and passed to fetch_page (fetchLog), and the response of    *)
(* the last requests.get (resp), and for every URL queued or fetched so    *)
(* far the length of the shortest chain of pages that led to it (depth).   *)
(* The last five are the state of normalize_url applied on its own.        *)
(***************************************************************************)
VARIABLES seed, max_pages, pc, start_url, allowed_netloc, visited, queue,
          results, url, html, resp, enqLog, deqLog, fetchLog, depth,
          nraw, nout, nslash, nout2, npc

crawlVars == <<seed, max_pages, pc, start_url, allowed_netloc, visited, queue,
               results, url, html, resp, enqLog, deqLog, fetchLog, depth>>
normVars == <<nraw, nout, nslash, nout2, npc>>

\* same_site applied on its own: its arguments and its two results
VARIABLES site_a, site_b, site_ab, site_ba, sitepc

siteVars == <<site_a, site_b, site_ab, site_ba, sitepc>>

\* analyze_content applied on its own: its arguments and its result
VARIABLES score_text, score_terms, word_count, matches, scorepc

scoreVars == <<score_text, score_terms, word_count, matches, scorepc>>

\* main: the value of --terms, the list made of it, the status the process
\* ends with (-1 while it runs), and the place main is at
VARIABLES argv_terms, main_terms, exit_status, mainpc

mainVars == <<argv_terms, main_terms, exit_status, mainpc>>

\* fetch_page applied on its own: the exchange with the server, what
\* fetch_page returns and the chunks it has read
VARIABLES fetch_failed, fetch_status, fetch_ctype, fetch_chunks, fetch_out,
          fetch_read, fetchpc

fetchVars == <<fetch_failed, fetch_status, fetch_ctype, fetch_chunks,
               fetch_out, fetch_read, fetchpc>>

\* crawl called twice with the same arguments against the same site: what
\* the site answers for the URLs fetched so far, the call that runs (0 when
\* crawl is called once only), and what the first call fetched and reported
VARIABLES site, run, first_fetched, first_reported

pairVars == <<site, run, first_fetched, first_reported>>

\* what crawl leaves alone
otherVars == <<normVars, siteVars, scoreVars, mainVars, fetchVars, pairVars>>

vars == <<crawlVars, otherVars>>

NormIdle ==
    nraw = <<>> /\ nout = <<>> /\ nslash = <<>> /\ nout2 = <<>> /\ npc = "idle"

SiteIdle ==
    /\ site_a = <<>> /\ site_b = <<>>
    /\ site_ab = FALSE /\ site_ba = FALSE
    /\ sitepc = "idle"

ScoreIdle ==
    /\ score_text = <<>> /\ score_terms = <<>>
    /\ word_count = 0 /\ matches = <<>>
    /\ scorepc = "idle"

MainIdle ==
    /\ argv_terms = <<>> /\ main_terms = <<>>
    /\ exit_status = -1
    /\ mainpc = "idle"

FetchIdle ==
    /\ fetch_failed = FALSE /\ fetch_status = 0
    /\ fetch_ctype = <<>> /\ fetch_chunks = <<>>
    /\ fetch_out = None /\ fetch_read = 0
    /\ fetchpc = "idle"

PairIdle ==
    /\ site = <<>> /\ run = 0
    /\ first_fetched = {} /\ first_reported = {}

OthersIdle ==
    NormIdle /\ SiteIdle /\ ScoreIdle /\ MainIdle /\ FetchIdle /\ PairIdle

CrawlIdle ==
    /\ seed = <<>> /\ max_pages = 0 /\ pc = "idle"
    /\ start_url = <<>> /\ allowed_netloc = <<>>
    /\ visited = {} /\ queue = <<>> /\ results = <<>>
    /\ url = <<>> /\ html = None /\ resp = NoBody
    /\ enqLog = <<>> /\ deqLog = <<>> /\ fetchLog = <<>>
    /\ depth = <<>>

\* crawl(seed, search_terms, max_pages) is called
Init ==
    /\ seed \in Seeds
    /\ max_pages \in 0..MaxBudget
    /\ pc = "start"
    /\ start_url = <<>> /\ allowed_netloc = <<>>
    /\ visited = {} /\ queue = <<>> /\ results = <<>>
    /\ url = <<>> /\ html = None /\ resp = NoBody
    /\ enqLog = <<>> /\ deqLog = <<>> /\ fetchLog = <<>>
    /\ depth = <<>>
    /\ OthersIdle

(***************************************************************************)
(* crawl                                                                   *)
(***************************************************************************)
\* the shortest chains known once the URLs of found are reached by a chain
\* of d pages
Shortest(known, found, d) ==
    [u \in DOMAIN known \cup found |->
        IF u \in found /\ (u \notin DOMAIN known \/ d < known[u])
        THEN d ELSE known[u]]

\* mutant of InvalidParsed: the scheme is not looked at
InvalidParsed_hostonly(start_parsed) == start_parsed.netloc = <<>>

\* line 157: the seed is refused
InvalidParsed(start_parsed) ==
    start_parsed.scheme \notin {S_http, S_https} \/ start_parsed.netloc = <<>>

InvalidStart(u) == InvalidParsed(urlparse(u))

\* line 160
NetlocOf(u) == urlparse(u).netloc

\* lines 155-164 once the seed is normalized: ValueError, or the locals
StartWith(u) ==
    /\ start_url' = u
    /\ IF InvalidStart(u)
       THEN /\ pc' = "raised"
            /\ UNCHANGED <<allowed_netloc, visited, queue, results, enqLog,
                           depth>>
       ELSE /\ allowed_netloc' = NetlocOf(u)
            /\ visited' = {}
            /\ queue' = <<u>>
            /\ results' = <<>>
            /\ enqLog' = <<u>>
            /\ depth' = Shortest(depth, {u}, 0)
            /\ pc' = "loop"

\* lines 154-164
Start ==
    /\ pc = "start"
    /\ StartWith(normalize_url(seed))
    /\ UNCHANGED <<seed, max_pages, url, html, resp, deqLog, fetchLog,
                   otherVars>>

\* mutant of LoopCondition: one page too many
LoopCondition_le(q, v, n) == q # <<>> /\ Cardinality(v) <= n

\* mutant of LoopCondition: the loop ends one page early
LoopCondition_early(q, v, n) == q # <<>> /\ Cardinality(v) < n - 1

\* line 166: the condition of the while loop
LoopCondition(q, v, n) == q # <<>> /\ Cardinality(v) < n

\* mutant of Pop: queue.pop(), the last entry
Pop_last(q) == [entry |-> q[Len(q)], rest |-> SubSeq(q, 1, Len(q) - 1)]

\* queue.pop(0): the entry taken and the queue left
Pop(q) == [entry |-> Head(q), rest |-> Tail(q)]

\* mutant of AlreadyVisited: the check is left out
AlreadyVisited_never(u, v) == FALSE

\* line 169: url in visited
AlreadyVisited(u, v) == u \in v

\* line 172: visited.add(url)
VisitedAdd(v, u) == v \cup {u}

\* lines 166, 186: the loop ends and crawl returns results
LoopExit ==
    /\ pc = "loop"
    /\ ~LoopCondition(queue, visited, max_pages)
    /\ pc' = "done"
    /\ UNCHANGED <<seed, max_pages, start_url, allowed_netloc, visited, queue,
                   results, url, html, resp, enqLog, deqLog, fetchLog, depth,
                   otherVars>>

\* lines 169-173 for the entry popped and normalized
Visit(u) ==
    /\ url' = u
    /\ IF AlreadyVisited(u, visited)
       THEN pc' = "loop" /\ UNCHANGED visited
       ELSE pc' = "fetch" /\ visited' = VisitedAdd(visited, u)

\* lines 166-173: an entry is popped, and marked visited unless it already is
Dequeue ==
    /\ pc = "loop"
    /\ LoopCondition(queue, visited, max_pages)
    /\ Visit(normalize_url(Pop(queue).entry))
    /\ queue' = Pop(queue).rest
    /\ deqLog' = Append(deqLog, Pop(queue).entry)
    /\ depth' = Shortest(depth, {url'}, depth[Pop(queue).entry])
    /\ UNCHANGED <<seed, max_pages, start_url, allowed_netloc, results, html,
                   resp, enqLog, fetchLog, otherVars>>

\* line 175: html = fetch_page(url), the server giving one of the answers
FetchWith(answers) ==
    /\ pc = "fetch"
    /\ \E r \in answers : resp' = r /\ html' = fetch_page(r)
    /\ fetchLog' = Append(fetchLog, url)
    /\ pc' = "check"
    /\ UNCHANGED <<seed, max_pages, start_url, allowed_netloc, visited, queue,
                   results, url, enqLog, deqLog, depth>>

\* line 175, whatever the server answers
Fetch == FetchWith(Responses) /\ UNCHANGED otherVars

\* lines 176-177: nothing was fetched, on to the next entry
FetchFailed ==
    /\ pc = "check"
    /\ Falsy(html)
    /\ pc' = "loop"
    /\ UNCHANGED <<seed, max_pages, start_url, allowed_netloc, visited, queue,
                   results, url, html, resp, enqLog, deqLog, fetchLog, depth,
                   otherVars>>

\* mutant of ShouldEnqueue: the queue is not looked at
ShouldEnqueue_anyqueued(link, v, q) == link \notin v

\* line 183: link not in visited and link not in queue
ShouldEnqueue(link, v, q) == link \notin v /\ ~Contains(q, link)

\* lines 183-184 for the links in the order the loop meets them
RECURSIVE Enqueue(_, _, _)
Enqueue(order, v, q) ==
    IF order = <<>> THEN q
    ELSE Enqueue(Tail(order), v,
                 IF ShouldEnqueue(Head(order), v, q)
                 THEN Append(q, Head(order)) ELSE q)

\* the queue after the loop of lines 182-184, and what was appended to it
EnqueueAll(q) ==
    /\ queue' = q
    /\ enqLog' = enqLog \o SubSeq(q, Len(queue) + 1, Len(q))

\* lines 179-184: the page is recorded and its links are enqueued
ProcessPage ==
    /\ pc = "check"
    /\ ~Falsy(html)
    /\ results' = Append(results, [url |-> url])
    /\ \E order \in Orders(extract_links(html.anchors, url, allowed_netloc)) :
          /\ EnqueueAll(Enqueue(order, visited, queue))
          /\ depth' = Shortest(depth, {order[i] : i \in DOMAIN order},
                               depth[url] + 1)
    /\ pc' = "loop"
    /\ UNCHANGED <<seed, max_pages, start_url, allowed_netloc, visited, url,
                   html, resp, deqLog, fetchLog, otherVars>>

Next ==
    \/ Start
    \/ LoopExit
    \/ Dequeue
    \/ Fetch
    \/ FetchFailed
    \/ ProcessPage

Spec == Init /\ [][Next]_vars

\* crawl has returned or raised
Final == pc \in {"done", "raised"}

\* The statements of crawl run one after the other and each of them ends
\* (fetch_page returns, by its timeout at the latest): a crawl that has not
\* returned takes a next step.  Next is enabled in every state that is not
\* Final, so this is weak fairness of Next, written without ENABLED.
FairSpec == Spec /\ ([]<>Final \/ []<><<Next>>_vars)

(***************************************************************************)
(* crawl called twice with the same seed and budget against a site that    *)
(* gives the same answer whenever the same URL is fetched.                 *)
(***************************************************************************)
InitPair ==
    /\ seed \in Seeds
    /\ max_pages \in 0..PairBudget
    /\ pc = "start"
    /\ start_url = <<>> /\ allowed_netloc = <<>>
    /\ visited = {} /\ queue = <<>> /\ results = <<>>
    /\ url = <<>> /\ html = None /\ resp = NoBody
    /\ enqLog = <<>> /\ deqLog = <<>> /\ fetchLog = <<>>
    /\ depth = <<>>
    /\ site = <<>> /\ run = 1
    /\ first_fetched = {} /\ first_reported = {}
    /\ NormIdle /\ SiteIdle /\ ScoreIdle /\ MainIdle /\ FetchIdle

\* what the site answers for u: what it answered before, if u was fetched
Served(u) == IF u \in DOMAIN site THEN {site[u]} ELSE Responses

\* line 175 against the site
FetchServed ==
    /\ run \in {1, 2}
    /\ FetchWith(Served(url))
    /\ site' = [u \in DOMAIN site \cup {url} |->
                   IF u = url THEN resp' ELSE site[u]]
    /\ UNCHANGED <<run, first_fetched, first_reported, normVars, siteVars,
                   scoreVars, mainVars, fetchVars>>

\* lines 153-164, 186: crawl has returned, and is called again
Rerun ==
    /\ run = 1
    /\ pc = "done"
    /\ first_fetched' = {fetchLog[i] : i \in 1..Len(fetchLog)}
    /\ first_reported' = {results[i].url : i \in 1..Len(results)}
    /\ run' = 2
    /\ pc' = "start"
    /\ start_url' = <<>> /\ allowed_netloc' = <<>>
    /\ visited' = {} /\ queue' = <<>> /\ results' = <<>>
    /\ url' = <<>> /\ html' = None /\ resp' = NoBody
    /\ enqLog' = <<>> /\ deqLog' = <<>> /\ fetchLog' = <<>>
    /\ depth' = <<>>
    /\ UNCHANGED <<seed, max_pages, site, normVars, siteVars, scoreVars,
                   mainVars, fetchVars>>

NextPair ==
    \/ Start
    \/ LoopExit
    \/ Dequeue
    \/ FetchServed
    \/ FetchFailed
    \/ ProcessPage
    \/ Rerun

SpecPair == InitPair /\ [][NextPair]_vars

(***************************************************************************)
(* main: the terms are parsed, crawl is called, and the process ends with  *)
(* the value main returns, or with the ValueError of crawl.                *)
(***************************************************************************)
\* nothing, commas and spaces only, one term, two terms between spaces and
\* empty pieces
TermArgs ==
    {<<>>, <<" ", ",", " ">>, <<"a">>, <<" ", "a", " ", ",", ",", "B", " ">>}

InitMain ==
    /\ seed \in Seeds
    /\ max_pages \in 0..MainBudget
    /\ pc = "idle"
    /\ start_url = <<>> /\ allowed_netloc = <<>>
    /\ visited = {} /\ queue = <<>> /\ results = <<>>
    /\ url = <<>> /\ html = None /\ resp = NoBody
    /\ enqLog = <<>> /\ deqLog = <<>> /\ fetchLog = <<>>
    /\ depth = <<>>
    /\ argv_terms \in TermArgs
    /\ main_terms = <<>>
    /\ exit_status = -1
    /\ mainpc = "args"
    /\ NormIdle /\ SiteIdle /\ ScoreIdle /\ FetchIdle /\ PairIdle

\* lines 207-211 for the list of terms: return 2, or the call of crawl
MainTerms(parsed) ==
    /\ main_terms' = parsed
    /\ IF parsed = <<>>
       THEN mainpc' = "returned" /\ exit_status' = 2 /\ pc' = pc
       ELSE mainpc' = "crawl" /\ exit_status' = exit_status /\ pc' = "start"

\* lines 205-211
MainParse ==
    /\ mainpc = "args"
    /\ MainTerms(ParseTerms(argv_terms))
    /\ UNCHANGED <<seed, max_pages, start_url, allowed_netloc, visited, queue,
                   results, url, html, resp, enqLog, deqLog, fetchLog, depth,
                   argv_terms, normVars, siteVars, scoreVars, fetchVars,
                   pairVars>>

\* lines 211-217, 220: crawl has returned its report, main returns 0
MainReturn ==
    /\ mainpc = "crawl"
    /\ pc = "done"
    /\ exit_status' = 0
    /\ mainpc' = "returned"
    /\ UNCHANGED <<crawlVars, argv_terms, main_terms, normVars, siteVars,
                   scoreVars, fetchVars, pairVars>>

\* lines 158, 211, 220: the ValueError of crawl is caught nowhere, and the
\* interpreter ends with status 1
MainRaise ==
    /\ mainpc = "crawl"
    /\ pc = "raised"
    /\ exit_status' = 1
    /\ mainpc' = "raised"
    /\ UNCHANGED <<crawlVars, argv_terms, main_terms, normVars, siteVars,
                   scoreVars, fetchVars, pairVars>>

NextMain ==
    \/ MainParse
    \/ Next
    \/ MainReturn
    \/ MainRaise

SpecMain == InitMain /\ [][NextMain]_vars

(***************************************************************************)
(* normalize_url on its own: a URL is normalized, and the result is        *)
(* normalized again; next to it the URL with a "/" appended is normalized. *)
(***************************************************************************)
N_schemes ==
    {<<>>, S_http \o <<":">>, <<"H", "T", "T", "P", "S", ":">>,
     S_ftp \o <<":">>}

N_hosts == {<<>>, <<"/", "/", "b", ".", "c">>, <<"/", "/", "B", ".", "c">>}

N_paths == UNION {[1..n -> {"/", "x"}] : n \in 0..MaxPathLen}

N_tails ==
    {<<>>, <<"?", "q">>, <<"?", "/">>, <<"#", "f">>, <<"#", "/">>}

NormInputs ==
    {s \o h \o p \o t : s \in N_schemes, h \in N_hosts, p \in N_paths,
                        t \in N_tails}

InitNorm ==
    /\ CrawlIdle /\ SiteIdle /\ ScoreIdle /\ MainIdle /\ FetchIdle /\ PairIdle
    /\ nraw \in NormInputs
    /\ nout = <<>> /\ nslash = <<>> /\ nout2 = <<>>
    /\ npc = "raw"

Normalize ==
    /\ npc = "raw"
    /\ nout' = normalize_url(nraw)
    /\ nslash' = normalize_url(nraw \o <<"/">>)
    /\ npc' = "once"
    /\ UNCHANGED <<nraw, nout2, crawlVars, siteVars, scoreVars, mainVars,
                   fetchVars, pairVars>>

Renormalize ==
    /\ npc = "once"
    /\ nout2' = normalize_url(nout)
    /\ npc' = "twice"
    /\ UNCHANGED <<nraw, nout, nslash, crawlVars, siteVars, scoreVars,
                   mainVars, fetchVars, pairVars>>

NextNorm == Normalize \/ Renormalize

SpecNorm == InitNorm /\ [][NextNorm]_vars

(***************************************************************************)
(* same_site on its own: it is called with two hosts, in both orders.      *)
(***************************************************************************)
\* what may stand in front of a host: nothing, www. once or twice, in either
\* case, a subdomain, a subdomain that starts with www, letters without a dot
SitePrefixes ==
    {<<>>, S_www, <<"W", "w", "W", ".">>, S_www \o S_www,
     <<"x", ".">>, <<"x", ".">> \o S_www, <<"w", "w", "w", "x", ".">>,
     <<"a">>, <<".">>}

\* b.c, the same in upper case and with a trailing dot, c, o.c, no host
SiteBases ==
    {<<"b", ".", "c">>, <<"B", ".", "C">>, <<"b", ".", "c", ".">>,
     <<"c">>, <<"o", ".", "c">>, <<>>}

SiteHosts == {p \o b : p \in SitePrefixes, b \in SiteBases}

InitSite ==
    /\ CrawlIdle /\ NormIdle /\ ScoreIdle /\ MainIdle /\ FetchIdle /\ PairIdle
    /\ site_a \in SiteHosts
    /\ site_b \in SiteHosts
    /\ site_ab = FALSE /\ site_ba = FALSE
    /\ sitepc = "args"

SameSite ==
    /\ sitepc = "args"
    /\ site_ab' = same_site(site_a, site_b)
    /\ site_ba' = same_site(site_b, site_a)
    /\ sitepc' = "returned"
    /\ UNCHANGED <<site_a, site_b, crawlVars, normVars, scoreVars, mainVars,
                   fetchVars, pairVars>>

NextSite == SameSite

SpecSite == InitSite /\ [][NextSite]_vars

(***************************************************************************)
(* analyze_content on its own: a page text is scored against a list of     *)
(* terms.                                                                  *)
(***************************************************************************)
\* a letter, a letter in upper case, a character that is no word character,
\* white space
ScoreChars == {"a", "B", ".", " "}

\* get_text(strip=True) yields no white space at either end
ScoreTexts ==
    {t \in UNION {[1..n -> ScoreChars] : n \in 0..MaxTextLen} :
        t = <<>> \/ (t[1] # " " /\ t[Len(t)] # " ")}

\* a, b, A, aB, .b, a.
ScoreTerms ==
    {<<"a">>, <<"b">>, <<"A">>, <<"a", "B">>, <<".", "b">>, <<"a", ".">>}

ScoreTermLists == UNION {[1..n -> ScoreTerms] : n \in 1..MaxTerms}

InitScore ==
    /\ CrawlIdle /\ NormIdle /\ SiteIdle /\ MainIdle /\ FetchIdle /\ PairIdle
    /\ score_text \in ScoreTexts
    /\ score_terms \in ScoreTermLists
    /\ word_count = 0 /\ matches = <<>>
    /\ scorepc = "args"

Analyze ==
    /\ scorepc = "args"
    /\ word_count' = analyze_content(score_text, score_terms).word_count
    /\ matches' = analyze_content(score_text, score_terms).matches
    /\ scorepc' = "returned"
    /\ UNCHANGED <<score_text, score_terms, crawlVars, normVars, siteVars,
                   mainVars, fetchVars, pairVars>>

NextScore == Analyze

SpecScore == InitScore /\ [][NextScore]_vars

(***************************************************************************)
(* fetch_page on its own: one exchange with the server.                    *)
(***************************************************************************)
\* OK, No Content, Multiple Choices, Not Modified, Not Found, Service
\* Unavailable
FetchStatuses == {200, 204, 300, 304, 404, 503}

FetchTypes == {T_html, T_HTML, T_xhtml, T_json, <<>>}

\* the full chunks that fit under the cap
FullChunks == [i \in 1..(MAX_BYTES \div CHUNK) |-> CHUNK]

\* what is left under the cap after them
LastChunk == MAX_BYTES % CHUNK

\* the end of a body: no chunk, one byte, up to the cap, one byte over it, a
\* full chunk, an empty chunk before the cap, two chunks that pass the cap
FetchTails ==
    {<<>>, <<1>>, <<LastChunk>>, <<LastChunk + 1>>, <<CHUNK>>,
     <<1, 0, CHUNK>>, <<LastChunk, 1, 1>>}

FetchChunkLists ==
    FetchTails \cup {FullChunks \o tail : tail \in FetchTails}

InitFetch ==
    /\ CrawlIdle /\ NormIdle /\ SiteIdle /\ ScoreIdle /\ MainIdle /\ PairIdle
    /\ fetch_failed \in BOOLEAN
    /\ fetch_status \in FetchStatuses
    /\ fetch_ctype \in FetchTypes
    /\ fetch_chunks \in FetchChunkLists
    /\ fetch_out = None /\ fetch_read = 0
    /\ fetchpc = "call"

\* fetch_page for the response r
FetchReturns(r) ==
    /\ fetch_out' = fetch_page(r)
    /\ fetch_read' = ChunksRead(r)

FetchPage ==
    /\ fetchpc = "call"
    /\ FetchReturns(Answer(fetch_failed, fetch_status, fetch_ctype,
                           fetch_chunks))
    /\ fetchpc' = "returned"
    /\ UNCHANGED <<fetch_failed, fetch_status, fetch_ctype, fetch_chunks,
                   crawlVars, normVars, siteVars, scoreVars, mainVars,
                   pairVars>>

NextFetch == FetchPage

SpecFetch == InitFetch /\ [][NextFetch]_vars

(***************************************************************************)
(* Properties.                                                             *)
(***************************************************************************)
Range(s) == {s[i] : i \in 1..Len(s)}

NoDup(s) == \A i, j \in 1..Len(s) : i # j => s[i] # s[j]

RECURSIVE Sum(_)
Sum(s) == IF s = <<>> THEN 0 ELSE Head(s) + Sum(Tail(s))

\* the URLs that have a record in the report
Recorded == {results[i].url : i \in 1..Len(results)}

\* the page fetched last was processed, and html holds it
LastPageProcessed ==
    /\ ~Falsy(html)
    /\ results # <<>>
    /\ results[Len(results)].url = url

\* the host of the normalized seed
SeedHost == urlparse(normalize_url(seed)).netloc

\* C1: the visited set never holds more than max_pages URLs and fetch_page is
\* called at most max_pages times, failed fetches included.
TheoremC1 ==
    /\ Cardinality(visited) <= max_pages
    /\ Len(fetchLog) <= max_pages

\* the budget ends a crawl whose frontier is not empty, one fetch having failed
WitnessC1 ==
    /\ pc = "done"
    /\ max_pages = 2
    /\ Len(fetchLog) = 2
    /\ Len(results) = 1
    /\ queue # <<>>

\* C2: the loop is always left and crawl returns, and it is left exactly when
\* the frontier is empty or the visited count has reached max_pages.
TheoremC2 ==
    /\ (pc = "loop") ~>
          (pc = "done" /\ (queue = <<>> \/ Cardinality(visited) >= max_pages))
    /\ [][(pc = "loop" /\ (queue = <<>> \/ Cardinality(visited) >= max_pages))
            => pc' = "done"]_vars

\* a crawl has returned on budget although its last page links back to a
\* visited page and the frontier still holds entries
WitnessC2 ==
    /\ pc = "done"
    /\ LastPageProcessed
    /\ Cardinality(visited) = max_pages
    /\ queue # <<>>
    /\ \E link \in extract_links(html.anchors, url, allowed_netloc) :
          link \in visited

\* C3: fetch_page is never called twice with the same URL string: the URL
\* about to be fetched was never fetched before, and visited is exactly the
\* URLs fetched plus the one about to be.
TheoremC3 ==
    /\ NoDup(fetchLog)
    /\ pc = "fetch" => url \notin Range(fetchLog)
    /\ visited = Range(fetchLog) \cup (IF pc = "fetch" THEN {url} ELSE {})

\* an entry was popped and skipped because it was already visited
WitnessC3 ==
    /\ pc = "loop"
    /\ Len(fetchLog) >= 1
    /\ Len(deqLog) > Len(fetchLog)

\* the parsed URL is an http(s) URL on the site of host
OnSite(parsed, host) ==
    /\ parsed.scheme \in {S_http, S_https}
    /\ same_site(parsed.netloc, host)

\* C4: every URL appended to the frontier or passed to fetch_page is an
\* http(s) URL whose host is same-site with the host of the seed, which is
\* the host every link is judged against.
TheoremC4 ==
    LET host == SeedHost
    IN  /\ \A u \in Range(enqLog) \cup Range(fetchLog) :
              OnSite(urlparse(u), host)
        /\ pc \in {"loop", "fetch", "check", "done"} => allowed_netloc = host

\* a page of b.c, reached from a seed on x.b.c, was processed; it links to
\* o.b.c and to ab.c
WitnessC4 ==
    /\ pc = "loop"
    /\ seed = Seed_sub
    /\ LastPageProcessed
    /\ urlparse(url).netloc = <<"b", ".", "c">>
    /\ html.anchors = {H_sibling, H_offsite}

\* the response is one of the failures: a transport error, a content type
\* that is not HTML, a body over the cap
Failed(r) ==
    \/ r.raises
    \/ ~IsHtmlType(r.ctype)
    \/ Sum(r.chunks) > MAX_BYTES

\* C5: when the fetch of the dequeued URL fails, the URL stays in visited, no
\* record is appended, no link is enqueued, nothing is raised and the loop
\* goes on.
TheoremC5 ==
    [][(pc = "check" /\ Failed(resp)) =>
          /\ pc' = "loop"
          /\ url \in visited'
          /\ visited' = visited
          /\ results' = results
          /\ queue' = queue
          /\ enqLog' = enqLog]_vars

\* after a failed fetch the next frontier entry has been dequeued
WitnessC5 ==
    /\ pc = "fetch"
    /\ Failed(resp)
    /\ Len(fetchLog) >= 2
    /\ fetchLog[Len(fetchLog)] \notin Recorded
    /\ fetchLog[Len(fetchLog)] \in visited

\* the parsed URL has no http(s) scheme or no host
Refused(parsed) ==
    parsed.scheme \notin {S_http, S_https} \/ parsed.netloc = <<>>

\* C6: a seed without http(s) scheme or without host is refused before
\* anything is created or fetched; every other crawl starts with the
\* normalized seed as the only frontier entry, nothing visited, no record.
TheoremC6 ==
    LET normalized == normalize_url(seed)
    IN  IF Refused(urlparse(normalized))
        THEN /\ pc \in {"start", "raised"}
             /\ queue = <<>> /\ visited = {} /\ results = <<>>
             /\ enqLog = <<>> /\ fetchLog = <<>>
        ELSE /\ pc # "raised"
             /\ pc # "start" => enqLog # <<>> /\ enqLog[1] = normalized
             /\ (pc = "loop" /\ deqLog = <<>>) =>
                   /\ queue = <<normalized>>
                   /\ visited = {}
                   /\ results = <<>>

\* the ftp seed was refused
WitnessC6 == pc = "raised" /\ seed = Seed_ftp

\* C7: normalizing a normalized URL changes nothing.
CounterC7 == npc = "twice" => nout2 = nout

\* nraw is scheme://host, with an empty path and nothing after it
RootForm(u) ==
    /\ urlparse(u).scheme # <<>>
    /\ urlparse(u).netloc # <<>>
    /\ urlparse(u).path = <<>>
    /\ ~Contains(u, "?")
    /\ ~Contains(u, "#")

\* C8: the root with an empty path and the root with path "/" normalize to
\* the same value.
CounterC8 == (npc = "once" /\ RootForm(nraw)) => nout = nslash

\* C9: the queue is first-in first-out: what was appended is what was popped
\* followed by what is queued, in this order; entries come in at the tail and
\* go out at the head only.
TheoremC9 ==
    /\ [](enqLog = deqLog \o queue)
    /\ [][\/ queue' = queue
          \/ queue # <<>> /\ queue' = Tail(queue)
          \/ /\ Len(queue') > Len(queue)
             /\ SubSeq(queue', 1, Len(queue)) = queue]_vars

\* a crawl has ended with an empty frontier after three entries were popped
WitnessC9 ==
    /\ pc = "done"
    /\ queue = <<>>
    /\ Len(deqLog) >= 3
    /\ deqLog = enqLog

\* C10: the frontier never holds a URL twice.
TheoremC10 == NoDup(queue)

\* a page with two anchors that resolve to one URL was processed, and the URL
\* is queued
WitnessC10 ==
    /\ pc = "loop"
    /\ LastPageProcessed
    /\ html.anchors = {H_y, H_yslash}
    /\ LinkOf(H_y, url, allowed_netloc) = LinkOf(H_yslash, url, allowed_netloc)
    /\ \E link \in LinkOf(H_y, url, allowed_netloc) : Contains(queue, link)

\* C11: the report holds one record for every fetch that returned a body, an
\* empty body included, and none for a fetch that failed; each record is
\* tagged with the dequeued normalized URL, and the records are in the order
\* of the fetches.
CounterC11 ==
    [][/\ (pc = "check" /\ ~Failed(resp)) =>
             results' = Append(results, [url |-> url])
       /\ (pc = "check" /\ Failed(resp)) => results' = results
       /\ pc # "check" => results' = results]_vars

\* C12: same_site gives the same answer for its two arguments in either
\* order.
TheoremC12 == sitepc = "returned" => site_ab = site_ba

\* same_site has accepted a subdomain and its parent, in both orders
WitnessC12 ==
    /\ sitepc = "returned"
    /\ site_a = <<"x", ".", "b", ".", "c">>
    /\ site_b = <<"B", ".", "C">>
    /\ site_ab /\ site_ba

\* the host in lower case
Lowered(h) ==
    [i \in 1..Len(h) |->
        IF h[i] \in DOMAIN UpperToLower THEN UpperToLower[h[i]] ELSE h[i]]

\* the host without its first four characters when these are "www."
OneWwwLess(h) ==
    IF Len(h) >= 4 /\ SubSeq(h, 1, 4) = <<"w", "w", "w", ".">>
    THEN SubSeq(h, 5, Len(h)) ELSE h

\* x is y with a label, or more, and a dot in front of it
DotSuffix(x, y) ==
    /\ Len(x) > Len(y)
    /\ x[Len(x) - Len(y)] = "."
    /\ SubSeq(x, Len(x) - Len(y) + 1, Len(x)) = y

\* C13: with both hosts in lower case and one leading "www." taken from each,
\* same_site is true exactly when the two are equal or one ends with "."
\* followed by the other; ab.c and b.c, which share an ending without a dot
\* in front of it, are not same-site, x.b.c and b.c are.
TheoremC13 ==
    sitepc = "returned" =>
        LET a == OneWwwLess(Lowered(site_a))
            b == OneWwwLess(Lowered(site_b))
        IN  site_ab <=> (a = b \/ DotSuffix(a, b) \/ DotSuffix(b, a))

\* same_site has refused ab.c against www.b.c
WitnessC13 ==
    /\ sitepc = "returned"
    /\ site_a = <<"a", "b", ".", "c">>
    /\ site_b = <<"w", "w", "w", ".", "b", ".", "c">>
    /\ ~site_ab

\* the term stands at offset i of the text with no word character next to
\* it: it is no part of a larger token
WholeAt(term, text, i) ==
    /\ i + Len(term) <= Len(text)
    /\ SubSeq(text, i + 1, i + Len(term)) = term
    /\ i >= 1 => text[i] \notin Letters
    /\ i + Len(term) < Len(text) => text[i + Len(term) + 1] \notin Letters

\* the whole-word occurrences from offset i on that do not overlap, the
\* leftmost first
RECURSIVE WholeWords(_, _, _)
WholeWords(term, text, i) ==
    IF i > Len(text) THEN 0
    ELSE IF WholeAt(term, text, i)
         THEN 1 + WholeWords(term, text, i + Len(term))
         ELSE WholeWords(term, text, i + 1)

\* C14: matches has one key per term, the term as it was given, and its
\* value is the number of non-overlapping occurrences of the term, whatever
\* the case, that are no part of a larger token.
CounterC14 ==
    scorepc = "returned" =>
        /\ DOMAIN matches = Range(score_terms)
        /\ \A term \in Range(score_terms) :
              matches[term] =
                  WholeWords(Lowered(term), Lowered(score_text), 0)

\* the value of --terms holds no term: commas and spaces only
NoTerms == \A i \in 1..Len(argv_terms) : argv_terms[i] \in {",", " "}

\* C15: main ends with status 0 when crawl has returned, with or without
\* pages in its report, and with another status when the seed is refused or
\* when no term is left after trimming; without a term crawl is not called
\* and nothing is fetched.
TheoremC15 ==
    /\ mainpc \in {"returned", "raised"} =>
          /\ exit_status = 0 <=> pc = "done"
          /\ exit_status # 0 <=>
                (NoTerms \/ Refused(urlparse(normalize_url(seed))))
    /\ NoTerms =>
          /\ pc = "idle"
          /\ mainpc \in {"args", "returned"}
          /\ start_url = <<>> /\ enqLog = <<>> /\ fetchLog = <<>>
    /\ (pc = "done" /\ mainpc # "returned") => mainpc = "crawl"

\* main has returned 0 after a crawl whose only fetch failed
WitnessC15 ==
    /\ mainpc = "returned"
    /\ exit_status = 0
    /\ Len(fetchLog) = 1
    /\ results = <<>>

\* the bytes of the first n chunks
BytesOf(n) == Sum(SubSeq(fetch_chunks, 1, n))

\* C16: fetch_page returns a body only for a successful status, an HTML
\* content type and never more than 2,000,000 bytes read; no chunk is read
\* when the content type is refused, no chunk is read after the one that
\* passes the cap, and a body of exactly 2,000,000 bytes is returned.
CounterC16 ==
    fetchpc = "returned" =>
        /\ ~fetch_out.isNone =>
              /\ ~fetch_failed
              /\ fetch_status \in 200..299
              /\ IsHtmlType(fetch_ctype)
              /\ \A n \in 0..fetch_read : BytesOf(n) <= MAX_BYTES
        /\ ~IsHtmlType(fetch_ctype) => fetch_read = 0
        /\ \A n \in 0..(fetch_read - 1) : BytesOf(n) <= MAX_BYTES
        /\ ( /\ ~fetch_failed
             /\ fetch_status = 200
             /\ IsHtmlType(fetch_ctype)
             /\ fetch_chunks = FullChunks \o <<LastChunk>> ) =>
                 /\ ~fetch_out.isNone
                 /\ fetch_out.len = MAX_BYTES
                 /\ fetch_read = Len(fetch_chunks)

\* C17: when an iteration of the loop starts no entry of the frontier is in
\* visited, and every entry popped is fetched: the skip of an entry already
\* visited is never taken.
CounterC17 ==
    /\ pc = "loop" => \A i \in 1..Len(queue) : queue[i] \notin visited
    /\ Len(deqLog) = Len(fetchLog) + (IF pc = "fetch" THEN 1 ELSE 0)

\* C18: the URLs are fetched in the order of their depth, the length of the
\* shortest chain of fetched pages that leads from the seed to them, and no
\* URL of one depth is fetched while a URL of the depth before it waits in
\* the frontier.
CounterC18 ==
    /\ \A i, j \in 1..Len(fetchLog) :
          i < j => depth[fetchLog[i]] <= depth[fetchLog[j]]
    /\ pc = "fetch" =>
          \A k \in 1..Len(queue) : depth[queue[k]] + 1 # depth[url]

\* C19: with the same seed, the same budget and the same answer of the site
\* for every URL, two crawls fetch the same set of URLs and report the same
\* set of URLs, whatever the order in which the links of each page are
\* appended to the frontier, cut by the budget or not.
CounterC19 ==
    (run = 2 /\ pc = "done") =>
        /\ Range(fetchLog) = first_fetched
        /\ Recorded = first_reported

====
